---- MODULE Spec2Model ----
(***************************************************************************)
(* A model of the grid-search object detector of DaveOkpare/vision:        *)
(* SimpleSpatialDetector.detect and detect_multiple as written in          *)
(* src/IMPLEMENTATION_PLAN.md, with the oracle (SimpleAIAgent.analyze_grid)*)
(* as the environment.  Coordinates are integers (pixels); a confidence    *)
(* average is kept as the fraction sum/len, so that no rounding enters.    *)
(***************************************************************************)
EXTENDS Integers, Sequences, FiniteSets, TLC

(***************************************************************************)
(* Bounds of the model and constants of the program.                       *)
(***************************************************************************)

\* The longest list of object descriptions handed to detect_multiple.
MaxDescriptions == 2

\* self.max_crops = 3
DefaultMaxCrops == 3

\* self.convergence_threshold = 0.6, in percent
DefaultConvergencePct == 60

\* _is_terminal_state: width < 512 and height < 512
MinCropSide == 512

\* overlay_grid_on_image(image, 4, 3): rows, cols
GridRows == 4

GridCols == 3

\* The images of the model, as <<width, height>>: one that divides evenly and
\* stays above the size limit for several crops, one that leaves a remainder
\* in both directions, one already below the size limit.
Images == { <<1200, 900>>, <<1000, 700>>, <<400, 300>> }

\* The settings a detector is run with, as <<max_crops, threshold percent>>:
\* the constructor's defaults, and attributes set otherwise by the caller (a
\* ratio of 100% is never exceeded, so the area check never ends the loop
\* there).
Settings == { 1, DefaultMaxCrops } \X { DefaultConvergencePct, 100 }

\* The settings of the runs over several descriptions.
MultiSettings == { << DefaultMaxCrops, DefaultConvergencePct >>, << 1, 100 >> }

(***************************************************************************)
(* Sequences of integers.                                                  *)
(***************************************************************************)

RECURSIVE SumSeq(_)
SumSeq(s) == IF s = <<>> THEN 0 ELSE Head(s) + SumSeq(Tail(s))

Range(s) == { s[k] : k \in 1..Len(s) }

SetMin(S) == CHOOSE x \in S : \A y \in S : x <= y

SetMax(S) == CHOOSE x \in S : \A y \in S : x >= y

(***************************************************************************)
(* The grid: overlay_grid_on_image(image, rows, cols) returns the cell     *)
(* mapping.  Cells are numbered row-major from 0; a cell is as wide as     *)
(* width \div cols and as high as height \div rows, and the last column    *)
(* and the last row take the remainder.                                    *)
(***************************************************************************)

CellIds(rows, cols) == 0 .. (rows * cols - 1)

\* Cells of equal size everywhere: the remainder is left outside the grid.
CellRectEqualSize(id, img, rows, cols) ==
    LET cw == img[1] \div cols
        ch == img[2] \div rows
        r  == id \div cols
        c  == id % cols
    IN  << c * cw, r * ch, (c + 1) * cw, (r + 1) * ch >>

CellRect(id, img, rows, cols) ==
    LET w  == img[1]
        h  == img[2]
        cw == w \div cols
        ch == h \div rows
        r  == id \div cols
        c  == id % cols
    IN  << c * cw,
           r * ch,
           IF c = cols - 1 THEN w ELSE (c + 1) * cw,
           IF r = rows - 1 THEN h ELSE (r + 1) * ch >>

overlay_grid_on_image(img, rows, cols) ==
    [ id \in CellIds(rows, cols) |-> CellRect(id, img, rows, cols) ]

(***************************************************************************)
(* The oracle's answers: analyze_grid returns parallel lists 'cells' and   *)
(* 'confidence_scores'.  The model's oracle answers any of these.          *)
(***************************************************************************)

Resp(cells, scores) == [ cells |-> cells, confidence_scores |-> scores ]

NoSelection == Resp(<<>>, <<>>)

FullCoverage ==
    Resp([k \in 1..(GridRows * GridCols) |-> k - 1],
         [k \in 1..(GridRows * GridCols) |-> 100])

Responses ==
    { NoSelection,
      FullCoverage,
      Resp(<<3, 4>>, <<90, 85>>),      \* two cells of one row
      Resp(<<7>>, <<95>>),             \* one cell
      Resp(<<0>>, <<50>>),             \* one weak cell
      Resp(<<0, 11>>, <<70, 60>>),     \* opposite corners
      Resp(<<12>>, <<100>>) }          \* a cell id outside the grid

(***************************************************************************)
(* Pure helpers of the detector.                                           *)
(***************************************************************************)

\* The bbox of the first selected cell alone.
_cells_to_bbox_of_first(cell_ids, cell_mapping) ==
    IF cell_ids = << >> \/ cell_ids[1] \notin DOMAIN cell_mapping
    THEN << 0, 0, 0, 0 >>
    ELSE cell_mapping[cell_ids[1]]

\* _cells_to_bbox: minimum x, y and maximum x+width, y+height across the
\* selected cells; cell ids outside the grid are filtered out ("Invalid
\* cells"), and with no cell left the bbox is the empty one ("Empty
\* detection: Return empty bbox").
_cells_to_bbox(cell_ids, cell_mapping) ==
    LET valid == { id \in Range(cell_ids) : id \in DOMAIN cell_mapping }
    IN  IF valid = {}
        THEN << 0, 0, 0, 0 >>
        ELSE << SetMin({ cell_mapping[id][1] : id \in valid }),
                SetMin({ cell_mapping[id][2] : id \in valid }),
                SetMax({ cell_mapping[id][3] : id \in valid }),
                SetMax({ cell_mapping[id][4] : id \in valid }) >>

\* image.crop(crop_bbox): the size of the cropped image.
Crop(img, bbox) == << bbox[3] - bbox[1], bbox[4] - bbox[2] >>

\* The offset forgets the crops before the last one.
AdvanceOriginReset(origin, bbox) == << bbox[1], bbox[2] >>

\* origin_coordinates + crop_bbox[0:2]
AdvanceOrigin(origin, bbox) == << origin[1] + bbox[1], origin[2] + bbox[2] >>

\* final_bbox_original: the final bbox moved by the cumulative offset.
ToOriginal(bbox, origin) ==
    << bbox[1] + origin[1], bbox[2] + origin[2],
       bbox[3] + origin[1], bbox[4] + origin[2] >>

Area(img) == img[1] * img[2]

\* avg_confidence = sum(scores) / len(scores), as the fraction num/den.
AvgConfidence(scores) == [ num |-> SumSeq(scores), den |-> Len(scores) ]

\* The thresholds taken as exclusive: a boundary value falls to the lower tier.
categorize_confidence_exclusive(raw) ==
    IF      raw.num > 90 * raw.den THEN "certain"
    ELSE IF raw.num > 75 * raw.den THEN "high"
    ELSE IF raw.num > 60 * raw.den THEN "medium"
    ELSE IF raw.num > 45 * raw.den THEN "low"
    ELSE "uncertain"

\* categorize_confidence: the thresholds 90, 75, 60, 45 on the raw average.
categorize_confidence(raw) ==
    IF      raw.num >= 90 * raw.den THEN "certain"
    ELSE IF raw.num >= 75 * raw.den THEN "high"
    ELSE IF raw.num >= 60 * raw.den THEN "medium"
    ELSE IF raw.num >= 45 * raw.den THEN "low"
    ELSE "uncertain"

\* The filter that forgets the "low" category.
RetainedUnlessUncertain(category) == category \notin { "uncertain" }

\* detect_multiple: if detection["confidence"] not in ["uncertain", "low"]
Retained(category) == category \notin { "uncertain", "low" }

\* The loop guard with the comparison off by one.
LoopGuardOffByOne(iters, limit) == iters <= limit

\* while iterations < self.max_crops
LoopGuard(iters, limit) == iters < limit

\* The names of the objects looked for, in the order they are given.
DescriptionNames == << "red car", "person", "traffic light", "bicycle" >>

(***************************************************************************)
(* The state.                                                              *)
(***************************************************************************)
VARIABLES
    max_crops,              \* self.max_crops
    convergence_threshold,  \* self.convergence_threshold, in percent
    original_image,         \* the size of the image at image_path
    object_descriptions,    \* detect_multiple's argument
    mpc,                    \* where detect_multiple is
    detection_id,           \* detect_multiple's loop index i
    detections,             \* detect_multiple's list of kept detections
    combined_result_image,  \* whether the combined visualization was drawn
    returned,               \* every detection detect() returned, in call order
    pc,                     \* where the current detect() call is
    image,                  \* detect's current crop, as <<width, height>>
    origin_coordinates,     \* detect's cumulative offset
    iterations,             \* detect's iteration counter
    exit_reason,            \* why the cropping loop was left
    log,                    \* the oracle queries of the current detect() call
    result,                 \* detect's return value
    exception,              \* the exception raised, if any
    calls,                  \* the log and the result of every returned call
    calc,                   \* a helper function's arguments and its value
    file,                   \* Home: the selected File, or Null
    previewUrl,             \* Home: the object URL of the selected file
    targets,                \* Home: the text of the "What to detect" field
    isLoading,              \* Home: a detection request is being awaited
    error,                  \* Home: the error shown, or Null
    data,                   \* Home: the result shown, or Null
    isDragging,             \* ImageUpload: a drag is over the card
    inflight,               \* the request to /api/detect and its response
    event                   \* the handler that ran last, with its argument

vars == << max_crops, convergence_threshold, original_image,
           object_descriptions, mpc, detection_id, detections,
           combined_result_image, returned, pc, image, origin_coordinates,
           iterations, exit_reason, log, result, exception, calls, calc,
           file, previewUrl, targets, isLoading, error, data, isDragging,
           inflight, event >>

\* The web page's state.
page == << file, previewUrl, targets, isLoading, error, data, isDragging,
           inflight, event >>

\* What the detector does not touch: the helper functions' calculations and
\* the web page.
outside == << calc, page >>

config == << max_crops, convergence_threshold, original_image,
             object_descriptions >>

batch == << mpc, detection_id, detections, combined_result_image, returned,
           calls >>

frame == << image, origin_coordinates, iterations >>

NoResult == [ none |-> TRUE ]

\* No helper function is being calculated.
NoCalc == [ op |-> "none" ]

\* JavaScript's null.
Null == [ null |-> TRUE ]

\* Home's state at its first render: the useState initial values, no
\* request made, no handler run.
PageInit ==
    /\ file = Null
    /\ previewUrl = Null
    /\ targets = ""
    /\ isLoading = FALSE
    /\ error = Null
    /\ data = Null
    /\ isDragging = FALSE
    /\ inflight = [ stage |-> "none" ]
    /\ event = [ handler |-> "none" ]

\* The area check with the comparison turned around.
AreaRatioUnder(current, original) ==
    Area(current) * 100 < convergence_threshold * Area(original)

\* The size check that stops when either side is under the limit.
EitherSideBelowLimit(current) ==
    current[1] < MinCropSide \/ current[2] < MinCropSide

\* _is_terminal_state(current_image, original_image): the area ratio is over
\* the convergence threshold, or both sides are under the size limit.
AreaRatioOver(current, original) ==
    Area(current) * 100 > convergence_threshold * Area(original)

BelowSizeLimit(current) ==
    current[1] < MinCropSide /\ current[2] < MinCropSide

_is_terminal_state(current, original) ==
    AreaRatioOver(current, original) \/ BelowSizeLimit(current)

\* One entry of the log: the query's place, the crop it was asked about and
\* where that crop lies in the original, the iteration count then, and the
\* answer (or that the oracle failed).
Query(phase, img, resp, failed) ==
    [ phase |-> phase, crop |-> img, at |-> origin_coordinates,
      iter |-> iterations, resp |-> resp, failed |-> failed ]

\* Tracking variables that outlive the call: the next call goes on from them.
CarriedFrame(orig, previous) == previous

\* The local variables a detect() call starts with.
InitialFrame(orig, previous) == << orig, << 0, 0 >>, 0 >>

\* The state as detect_multiple is entered, for a detector set to one of
\* `settings` and a list of at most `longest` descriptions.
Start(settings, longest) ==
    /\ \E setting \in settings :
          /\ max_crops = setting[1]
          /\ convergence_threshold = setting[2]
    /\ original_image \in Images
    /\ \E n \in 1..longest :
          object_descriptions = SubSeq(DescriptionNames, 1, n)
    /\ mpc = "next"
    /\ detection_id = 0
    /\ detections = << >>
    /\ combined_result_image = FALSE
    /\ returned = << >>
    /\ pc = "idle"
    /\ image = original_image
    /\ origin_coordinates = << 0, 0 >>
    /\ iterations = 0
    /\ exit_reason = "none"
    /\ log = << >>
    /\ result = NoResult
    /\ exception = "none"
    /\ calls = << >>
    /\ calc = NoCalc
    /\ PageInit

\* One description, every setting: the detect() call in full.
Init == Start(Settings, 1)

\* Several descriptions, with the default settings and a one-crop detector.
InitMulti == Start(MultiSettings, MaxDescriptions)

(***************************************************************************)
(* detect_multiple: the loop over the descriptions.                        *)
(***************************************************************************)

\* for i, obj_desc in enumerate(object_descriptions): detection =
\* self.detect(image_path, obj_desc).  The call loads the image and sets its
\* tracking variables (detect, steps 1 and 2).
DetectCall ==
    /\ mpc = "next"
    /\ detection_id < Len(object_descriptions)
    /\ mpc' = "detect"
    /\ pc' = "test"
    /\ LET start == InitialFrame(original_image, frame)
       IN  /\ image' = start[1]
           /\ origin_coordinates' = start[2]
           /\ iterations' = start[3]
    /\ UNCHANGED << outside, config, detection_id, detections, combined_result_image,
                    returned, calls, exit_reason, log, result, exception >>

\* detect, step 3: the head of the cropping loop.  The loop is left when the
\* counter has reached max_crops, or at the break of the terminal check.
LoopTest ==
    /\ pc = "test"
    /\ IF ~LoopGuard(iterations, max_crops)
       THEN pc' = "final" /\ exit_reason' = "max-iterations"
       ELSE IF _is_terminal_state(image, original_image)
       THEN /\ pc' = "final"
            /\ exit_reason' = IF AreaRatioOver(image, original_image)
                              THEN "converged" ELSE "shrink-limit"
       ELSE pc' = "query" /\ UNCHANGED exit_reason
    /\ UNCHANGED << outside, config, batch, frame, log, result, exception >>

\* detect, steps 3b to 3f: grid, oracle answer, bbox, crop, offset, counter.
LoopQuery(resp) ==
    /\ pc = "query"
    /\ LET cell_mapping == overlay_grid_on_image(image, GridRows, GridCols)
           crop_bbox    == _cells_to_bbox(resp.cells, cell_mapping)
       IN  /\ image' = Crop(image, crop_bbox)
           /\ origin_coordinates' = AdvanceOrigin(origin_coordinates, crop_bbox)
    /\ iterations' = iterations + 1
    /\ log' = Append(log, Query("loop", image, resp, FALSE))
    /\ pc' = "test"
    /\ UNCHANGED << outside, config, batch, exit_reason, result, exception >>

\* The failure caught inside detect and the query asked again.
QueryFailsAndIsRetried ==
    /\ pc \in { "query", "final" }
    /\ Len(log) <= max_crops + 1
    /\ log' = Append(log, Query(IF pc = "query" THEN "loop" ELSE "final",
                                image, NoSelection, TRUE))
    /\ UNCHANGED << outside, config, batch, pc, frame, exit_reason, result,
                    exception >>

\* The oracle fails (API failure after the agent's own retries): the
\* exception leaves detect, and detect_multiple, which catch nothing.
QueryFails ==
    /\ pc \in { "query", "final" }
    /\ log' = Append(log, Query(IF pc = "query" THEN "loop" ELSE "final",
                                image, NoSelection, TRUE))
    /\ pc' = "raised"
    /\ mpc' = "raised"
    /\ exception' = "OracleError"
    /\ UNCHANGED << outside, config, detection_id, detections, combined_result_image,
                    returned, calls, frame, exit_reason, result >>

\* The final query asked about the original image instead of the crop.
FinalQueryOnOriginal(resp) ==
    /\ pc = "final"
    /\ log' = Append(log, Query("final", original_image, resp, FALSE))
    /\ IF Len(resp.confidence_scores) = 0
       THEN /\ pc' = "raised"
            /\ mpc' = "raised"
            /\ exception' = "ZeroDivisionError"
            /\ UNCHANGED result
       ELSE LET final_cell_mapping ==
                    overlay_grid_on_image(original_image, GridRows, GridCols)
                final_bbox_crop ==
                    _cells_to_bbox(resp.cells, final_cell_mapping)
                avg_confidence == AvgConfidence(resp.confidence_scores)
            IN  /\ result' =
                      [ bbox |-> ToOriginal(final_bbox_crop, origin_coordinates),
                        confidence |-> categorize_confidence(avg_confidence),
                        confidence_score |-> avg_confidence,
                        iterations |-> iterations ]
                /\ pc' = "done"
                /\ UNCHANGED << mpc, exception >>
    /\ UNCHANGED << outside, config, detection_id, detections, combined_result_image,
                    returned, calls, frame, exit_reason >>

\* detect, steps 4 to 8: the final query on the current crop, the bbox in the
\* original image, the average confidence (a division by the number of
\* scores) and its category.
FinalQuery(resp) ==
    /\ pc = "final"
    /\ log' = Append(log, Query("final", image, resp, FALSE))
    /\ IF Len(resp.confidence_scores) = 0
       THEN /\ pc' = "raised"
            /\ mpc' = "raised"
            /\ exception' = "ZeroDivisionError"
            /\ UNCHANGED result
       ELSE LET final_cell_mapping ==
                    overlay_grid_on_image(image, GridRows, GridCols)
                final_bbox_crop ==
                    _cells_to_bbox(resp.cells, final_cell_mapping)
                avg_confidence == AvgConfidence(resp.confidence_scores)
            IN  /\ result' =
                      [ bbox |-> ToOriginal(final_bbox_crop, origin_coordinates),
                        confidence |-> categorize_confidence(avg_confidence),
                        confidence_score |-> avg_confidence,
                        iterations |-> iterations ]
                /\ pc' = "done"
                /\ UNCHANGED << mpc, exception >>
    /\ UNCHANGED << outside, config, detection_id, detections, combined_result_image,
                    returned, calls, frame, exit_reason >>

\* The detection as detect_multiple keeps it: with its object and its id.
Detection(res, obj, id) ==
    [ object |-> obj, detection_id |-> id, bbox |-> res.bbox,
      confidence |-> res.confidence,
      confidence_score |-> res.confidence_score,
      iterations |-> res.iterations ]

\* detections.append(detection)
Keep(list, detection) == Append(list, detection)

\* detect_multiple, steps 3 and 4: the detection is tagged and, unless its
\* category is "uncertain" or "low", appended.
Collect ==
    /\ mpc = "detect"
    /\ pc = "done"
    /\ LET detection == Detection(result,
                                  object_descriptions[detection_id + 1],
                                  detection_id)
       IN  /\ detections' = IF Retained(detection.confidence)
                            THEN Keep(detections, detection)
                            ELSE detections
           /\ returned' = Append(returned, detection)
    /\ calls' = Append(calls, [ log |-> log, result |-> result ])
    /\ detection_id' = detection_id + 1
    /\ mpc' = "next"
    /\ pc' = "idle"
    /\ exit_reason' = "none"
    /\ log' = << >>
    /\ result' = NoResult
    /\ UNCHANGED << outside, config, combined_result_image, frame, exception >>

\* The combined visualization drawn whatever the list holds.
VisualizeAlways(list) == TRUE

\* detect_multiple, step 5: the combined visualization, if detections.
Visualize(list) == list # << >>

Return ==
    /\ mpc = "next"
    /\ detection_id = Len(object_descriptions)
    /\ combined_result_image' = Visualize(detections)
    /\ mpc' = "returned"
    /\ UNCHANGED << outside, config, detection_id, detections, returned, calls,
                    pc, frame, exit_reason, log, result, exception >>

Next ==
    \/ DetectCall
    \/ LoopTest
    \/ \E resp \in Responses : LoopQuery(resp)
    \/ QueryFails
    \/ \E resp \in Responses : FinalQuery(resp)
    \/ Collect
    \/ Return

Spec == Init /\ [][Next]_vars

SpecMulti == InitMulti /\ [][Next]_vars

(***************************************************************************)
(* What the claims speak of.                                               *)
(***************************************************************************)

\* detect() has ended: it returned, or it raised.
Ended == pc \in { "done", "raised" }

\* The queries of the log in one phase.
InPhase(phase) == { k \in 1..Len(log) : log[k].phase = phase }

\* Every query of the call was answered, and answered with `resp`.
AlwaysAnswered(resp) ==
    \A k \in 1..Len(log) : ~log[k].failed /\ log[k].resp = resp

\* The selections of an answer that survive: a cell of the grid, with a
\* confidence from 60 to 100.
Surviving(resp) ==
    { k \in 1..Len(resp.cells) :
        /\ resp.cells[k] \in CellIds(GridRows, GridCols)
        /\ resp.confidence_scores[k] >= 60
        /\ resp.confidence_scores[k] <= 100 }

\* The three stop conditions of the loop head, for a crop and a count.
RatioStop(img) == Area(img) * 100 > convergence_threshold * Area(original_image)

SizeStop(img) == img[1] < MinCropSide /\ img[2] < MinCropSide

CountStop(iters) == iters >= max_crops

AnyStop(img, iters) == RatioStop(img) \/ SizeStop(img) \/ CountStop(iters)

(***************************************************************************)
(* C1.  A detect() call issues at most max_crops + 1 oracle queries,       *)
(* counting every query of the loop and the final one.                     *)
(***************************************************************************)
C1_AtMostMaxCropsPlusOneQueries == Len(log) <= max_crops + 1

\* A call with the default limit of 3 that returned after 4 queries.
C1_Witness ==
    /\ pc = "done"
    /\ max_crops = DefaultMaxCrops
    /\ Len(log) = DefaultMaxCrops + 1

(***************************************************************************)
(* C2 (as claimed).  With an oracle that never selects a cell, detect()    *)
(* ends after exactly max_crops + 1 queries and returns confidence 0 with  *)
(* category "uncertain".                                                   *)
(***************************************************************************)
C2_EmptyOracleAsClaimed ==
    (Ended /\ log # << >> /\ AlwaysAnswered(NoSelection)) =>
        /\ Len(log) = max_crops + 1
        /\ pc = "done"
        /\ result.confidence_score.num = 0
        /\ result.confidence = "uncertain"

(***************************************************************************)
(* C3.  With the default threshold and an oracle that always reports full  *)
(* coverage at 100%, detect() leaves the loop at the area check, on the    *)
(* whole image (ratio 1.0), then asks exactly one final query and returns. *)
(***************************************************************************)
C3_FullCoverageConvergesThenOneFinalQuery ==
    (convergence_threshold = DefaultConvergencePct
       /\ AlwaysAnswered(FullCoverage)) =>
        /\ pc # "raised"
        /\ pc \in { "final", "done" } =>
              /\ exit_reason = "converged"
              /\ image = original_image
        /\ pc = "done" =>
              /\ Cardinality(InPhase("final")) = 1
              /\ log[Len(log)].phase = "final"

\* Such a call on a large image, returned as "certain".
C3_Witness ==
    /\ pc = "done"
    /\ convergence_threshold = DefaultConvergencePct
    /\ original_image = << 1200, 900 >>
    /\ AlwaysAnswered(FullCoverage)
    /\ exit_reason = "converged"
    /\ result.confidence = "certain"

(***************************************************************************)
(* C4 (as claimed).  Whenever an answer leaves no surviving cell, detect() *)
(* does not raise: what it returns for a final answer without survivors is *)
(* the current crop in the original image's coordinates, with confidence 0 *)
(* and category "uncertain".                                               *)
(***************************************************************************)
C4_NoSurvivorAsClaimed ==
    (Ended /\ log # << >> /\ ~log[Len(log)].failed
       /\ Surviving(log[Len(log)].resp) = {}) =>
        /\ pc = "done"
        /\ result.bbox = ToOriginal(<< 0, 0, image[1], image[2] >>,
                                    origin_coordinates)
        /\ result.confidence_score.num = 0
        /\ result.confidence = "uncertain"

(***************************************************************************)
(* C5.  Once the loop is left, for whatever reason, exactly one more query *)
(* is issued, on the current crop, and the result is built only after it:  *)
(* no result and no final query before, and a call that returned has its   *)
(* one final query last in the log, asked about the current crop.          *)
(***************************************************************************)
C5_OneFinalQueryThenResult ==
    /\ pc \in { "test", "query", "final" } =>
          /\ result = NoResult
          /\ InPhase("final") = {}
    /\ pc \in { "test", "query" } => exit_reason = "none"
    /\ pc = "final" => exit_reason # "none"
    /\ Ended => Cardinality(InPhase("final")) <= 1
    /\ pc = "done" =>
          /\ result # NoResult
          /\ exit_reason # "none"
          /\ InPhase("final") = { Len(log) }
          /\ log[Len(log)].crop = image

\* A call that cropped, left the loop at the size limit, and returned.
C5_Witness ==
    /\ pc = "done"
    /\ exit_reason = "shrink-limit"
    /\ iterations >= 1
    /\ image # original_image
    /\ InPhase("final") = { Len(log) }

(***************************************************************************)
(* C6.  The terminal check comes before every query of the loop: no such   *)
(* query is issued on a crop whose area ratio is over the threshold, or    *)
(* whose sides are both under 512, or once the count has reached the       *)
(* limit; and when none of the three holds the loop does query (it is left *)
(* only when one of them holds).                                           *)
(***************************************************************************)
C6_TerminalCheckBeforeEveryLoopQuery ==
    /\ \A k \in InPhase("loop") : ~AnyStop(log[k].crop, log[k].iter)
    /\ pc = "query" => ~AnyStop(image, iterations)
    /\ pc = "final" => AnyStop(image, iterations)

\* The loop about to query a second time, on a crop with one side under 512.
C6_Witness ==
    /\ pc = "query"
    /\ iterations = 1
    /\ image[2] < MinCropSide
    /\ image[1] >= MinCropSide

(***************************************************************************)
(* C7.  detect_multiple returns exactly the detections whose category is   *)
(* neither "uncertain" nor "low", in the order of the descriptions.        *)
(***************************************************************************)
C7_Confident(d) == d.confidence \notin { "uncertain", "low" }

C7_BatchIsConfidentResultsInOrder ==
    mpc = "returned" =>
        /\ Len(returned) = Len(object_descriptions)
        /\ \A k \in 1..Len(returned) :
              /\ returned[k].object = object_descriptions[k]
              /\ returned[k].detection_id = k - 1
        /\ detections = SelectSeq(returned, C7_Confident)

\* Two descriptions, the first "certain" and the second "low": only the
\* first is in the batch.
C7_Witness ==
    /\ mpc = "returned"
    /\ Len(returned) = 2
    /\ returned[1].confidence = "certain"
    /\ returned[2].confidence = "low"
    /\ Len(detections) = 1
    /\ detections[1].object = object_descriptions[1]

(***************************************************************************)
(* C9 (as claimed).  An oracle error during one description's detection    *)
(* degrades only that description's result: detect_multiple is not ended   *)
(* by it, and the descriptions after it are still detected.                *)
(***************************************************************************)
C9_OracleErrorIsolatedAsClaimed ==
    (exception = "OracleError"
       /\ detection_id + 1 < Len(object_descriptions)) => mpc # "raised"

(***************************************************************************)
(* C10.  Each description's detection starts from the whole original image *)
(* with offset (0,0) and count 0, and its crop, offset and count are at    *)
(* every point those of a run executed alone: the ones obtained from the   *)
(* original image by the answers to its own loop queries, whatever the     *)
(* detections before it did.                                               *)
(***************************************************************************)
RECURSIVE C10_Alone(_, _, _)
C10_Alone(fr, entries, k) ==
    IF k > Len(entries) \/ entries[k].phase # "loop" \/ entries[k].failed
    THEN fr
    ELSE LET bbox == _cells_to_bbox(entries[k].resp.cells,
                        overlay_grid_on_image(fr[1], GridRows, GridCols))
         IN  C10_Alone(<< << bbox[3] - bbox[1], bbox[4] - bbox[2] >>,
                          << fr[2][1] + bbox[1], fr[2][2] + bbox[2] >>,
                          fr[3] + 1 >>,
                       entries, k + 1)

detector == << config, batch, pc, frame, exit_reason, log, result, exception >>

\* The detector constructed and never called.
DetectorOff ==
    /\ max_crops = DefaultMaxCrops
    /\ convergence_threshold = DefaultConvergencePct
    /\ original_image = << 1200, 900 >>
    /\ object_descriptions = << DescriptionNames[1] >>
    /\ mpc = "start"
    /\ detection_id = 0
    /\ detections = << >>
    /\ combined_result_image = FALSE
    /\ returned = << >>
    /\ calls = << >>
    /\ pc = "idle"
    /\ image = original_image
    /\ origin_coordinates = << 0, 0 >>
    /\ iterations = 0
    /\ exit_reason = "none"
    /\ log = << >>
    /\ result = NoResult
    /\ exception = "none"

\* ---- Coordinate accumulation over a sequence of nested crops -----------

\* How many crops are nested, at most.
MaxNesting == 3

\* Crop bboxes, each local to the crop before it.
CropBoxes ==
    { << 0, 0, 1200, 900 >>, << 300, 225, 900, 675 >>, << 400, 450, 800, 900 >> }

\* Bboxes local to the innermost crop.
LocalBoxes == { << 0, 0, 400, 225 >>, << 100, 75, 300, 150 >>, << 0, 0, 0, 0 >> }

InitCoordinates ==
    /\ DetectorOff
    /\ PageInit
    /\ \E local \in LocalBoxes :
           calc = [ op |-> "coordinates", crops |-> << >>,
                    origin_coordinates |-> << 0, 0 >>, local |-> local,
                    final |-> NoResult ]

\* detect, steps 3d and 3e on their own: one more crop is taken and the
\* offset advances by its top-left corner.
CropAgain(crop_bbox) ==
    /\ calc.final = NoResult
    /\ Len(calc.crops) < MaxNesting
    /\ calc' = [ calc EXCEPT
                     !.crops = Append(@, crop_bbox),
                     !.origin_coordinates = AdvanceOrigin(@, crop_bbox) ]
    /\ UNCHANGED << detector, page >>

\* detect, step 5: the local bbox is translated by the accumulated offset.
Globalize ==
    /\ calc.final = NoResult
    /\ calc' = [ calc EXCEPT
                     !.final = ToOriginal(calc.local, calc.origin_coordinates) ]
    /\ UNCHANGED << detector, page >>

NextCoordinates ==
    \/ \E crop_bbox \in CropBoxes : CropAgain(crop_bbox)
    \/ Globalize

SpecCoordinates == InitCoordinates /\ [][NextCoordinates]_vars

\* compose(o1, compose(o2, ... compose(on, b))): the bbox carried outwards
\* through the crops one at a time, innermost first.
RECURSIVE C11_Nested(_, _)
C11_Nested(crops, b) ==
    IF crops = << >>
    THEN b
    ELSE ToOriginal(C11_Nested(Tail(crops), b),
                    << Head(crops)[1], Head(crops)[2] >>)

\* C11: compose is associative under iterated application: translating a
\* local bbox by the accumulated offset of a sequence of nested crops,
\* compose(advance(o1, o2), b), gives the same bbox as translating it by
\* each crop's origin in turn, compose(o1, compose(o2, b)), at every
\* nesting depth.
C11_ComposeAssociative ==
    (calc.op = "coordinates" /\ calc.final # NoResult)
        => calc.final = C11_Nested(calc.crops, calc.local)

\* Three nested crops with non-zero origins, and the bbox globalized.
C11_Witness ==
    /\ calc.op = "coordinates"
    /\ calc.final # NoResult
    /\ Len(calc.crops) = MaxNesting
    /\ \A k \in 1..Len(calc.crops) : calc.crops[k][1] > 0
    /\ calc.local[3] > calc.local[1]

\* ---- Confidence categories ----------------------------------------------

\* How many confidence scores are averaged, at most.
MaxScores == 3

\* Every average of 1..MaxScores scores, each within 0..100.
InitClassify ==
    /\ DetectorOff
    /\ PageInit
    /\ \E den \in 1..MaxScores : \E num \in 0..(100 * den) :
           calc = [ op |-> "classify", raw |-> [ num |-> num, den |-> den ],
                    category |-> "none" ]

\* detect, step 5: confidence_category = categorize_confidence(avg_confidence)
Categorize ==
    /\ calc.category = "none"
    /\ calc' = [ calc EXCEPT !.category = categorize_confidence(calc.raw) ]
    /\ UNCHANGED << detector, page >>

NextClassify == Categorize

SpecClassify == InitClassify /\ [][NextClassify]_vars

\* lo <= raw < hi, on the fraction raw.num / raw.den
C12_Within(raw, lo, hi) == lo * raw.den <= raw.num /\ raw.num < hi * raw.den

\* C12: every score in [0,100], integer or not, gets exactly one category:
\* certain on [90,100], high on [75,90), medium on [60,75), low on [45,60),
\* uncertain on [0,45); the boundaries 45, 60, 75, 90 belong to the higher
\* tier.
C12_ClassifyTotalInclusiveLowerBounds ==
    (calc.op = "classify" /\ calc.category # "none")
        => /\ calc.category \in { "certain", "high", "medium", "low", "uncertain" }
           /\ calc.category = "certain" <=> C12_Within(calc.raw, 90, 101)
           /\ calc.category = "high" <=> C12_Within(calc.raw, 75, 90)
           /\ calc.category = "medium" <=> C12_Within(calc.raw, 60, 75)
           /\ calc.category = "low" <=> C12_Within(calc.raw, 45, 60)
           /\ calc.category = "uncertain" <=> C12_Within(calc.raw, 0, 45)

\* The boundary 75 as the average of 70 and 80, classified "high".
C12_Witness ==
    /\ calc.op = "classify"
    /\ calc.raw = [ num |-> 150, den |-> 2 ]
    /\ calc.category = "high"

\* ---- The grid and the bbox of a selection -------------------------------

\* The longest side of the small images, in pixels.
MaxSide == 5

\* Rows and columns of the grids tried, at most.
MaxGrid == 4

GridImages == ((1..MaxSide) \X (1..MaxSide)) \cup Images

\* The cell lists of the oracle's answers, and cells 5 and 6.
Selections == { resp.cells : resp \in Responses } \cup { << 5, 6 >> }

InitGrid ==
    /\ DetectorOff
    /\ PageInit
    /\ \E img \in GridImages : \E rows \in 1..MaxGrid : \E cols \in 1..MaxGrid :
           calc = [ op |-> "grid", step |-> "called", image |-> img,
                    rows |-> rows, cols |-> cols, cell_mapping |-> << >>,
                    cells |-> << >>, bbox |-> << >> ]

\* grid_image, cell_mapping = overlay_grid_on_image(image, rows, cols)
Overlay ==
    /\ calc.step = "called"
    /\ calc' = [ calc EXCEPT
                     !.step = "overlaid",
                     !.cell_mapping =
                         overlay_grid_on_image(calc.image, calc.rows, calc.cols) ]
    /\ UNCHANGED << detector, page >>

\* crop_bbox = self._cells_to_bbox(ai_response['cells'], cell_mapping)
Select(cells) ==
    /\ calc.step = "overlaid"
    /\ calc' = [ calc EXCEPT
                     !.step = "selected",
                     !.cells = cells,
                     !.bbox = _cells_to_bbox(cells, calc.cell_mapping) ]
    /\ UNCHANGED << detector, page >>

NextGrid ==
    \/ Overlay
    \/ \E cells \in Selections : Select(cells)

SpecGrid == InitGrid /\ [][NextGrid]_vars

C13_Row(id) == id \div calc.cols

C13_Col(id) == id % calc.cols

C13_Width(id) == calc.cell_mapping[id][3] - calc.cell_mapping[id][1]

C13_Height(id) == calc.cell_mapping[id][4] - calc.cell_mapping[id][2]

\* The pixel (x, y) lies in the cell's rectangle.
C13_Holds(id, x, y) ==
    /\ calc.cell_mapping[id][1] <= x /\ x < calc.cell_mapping[id][3]
    /\ calc.cell_mapping[id][2] <= y /\ y < calc.cell_mapping[id][4]

\* C13: for every image size and grid, the cells have the ids
\* 0..rows*cols-1 in row-major order (the next id lies to the right, the id
\* cols further lies below), they tile the rectangle (0,0,W,H) without gap
\* or overlap (every pixel of a small image is in exactly one cell), and
\* only the last column and the last row are larger than the others.
C13_GridPartitionsImage ==
    (calc.op = "grid" /\ calc.step # "called")
        => LET m == calc.cell_mapping
               ids == DOMAIN m
               last_col == calc.cols - 1
               last_row == calc.rows - 1
           IN  /\ ids = 0 .. (calc.rows * calc.cols - 1)
               /\ \A id \in ids :
                      /\ m[id][1] <= m[id][3] /\ m[id][2] <= m[id][4]
                      /\ m[id][1] = IF C13_Col(id) = 0 THEN 0 ELSE m[id - 1][3]
                      /\ m[id][2] = IF C13_Row(id) = 0 THEN 0
                                    ELSE m[id - calc.cols][4]
                      /\ C13_Col(id) = last_col => m[id][3] = calc.image[1]
                      /\ C13_Row(id) = last_row => m[id][4] = calc.image[2]
               /\ \A i, j \in ids :
                      /\ C13_Row(i) = C13_Row(j)
                             => m[i][2] = m[j][2] /\ m[i][4] = m[j][4]
                      /\ C13_Col(i) = C13_Col(j)
                             => m[i][1] = m[j][1] /\ m[i][3] = m[j][3]
                      /\ C13_Col(i) # last_col
                             => /\ C13_Col(j) # last_col
                                    => C13_Width(i) = C13_Width(j)
                                /\ C13_Width(i) <= C13_Width(j)
                                       \/ C13_Col(j) # last_col
                      /\ C13_Row(i) # last_row
                             => /\ C13_Row(j) # last_row
                                    => C13_Height(i) = C13_Height(j)
                                /\ C13_Height(i) <= C13_Height(j)
                                       \/ C13_Row(j) # last_row
               /\ (calc.image[1] <= MaxSide /\ calc.image[2] <= MaxSide)
                      => \A x \in 0 .. (calc.image[1] - 1) :
                             \A y \in 0 .. (calc.image[2] - 1) :
                                 Cardinality({ id \in ids : C13_Holds(id, x, y) })
                                     = 1

\* A grid of several rows and columns over an image that neither divides.
C13_Witness ==
    /\ calc.op = "grid"
    /\ calc.step # "called"
    /\ calc.rows > 1 /\ calc.cols > 1
    /\ calc.image[1] % calc.cols # 0
    /\ calc.image[2] % calc.rows # 0
    /\ calc.image[1] > calc.cols
    /\ calc.image[2] > calc.rows

\* detect's grid over the 1200x900 image: overlay_grid_on_image(image, 4, 3)
C14_DetectGrid ==
    /\ calc.op = "grid"
    /\ calc.step # "called"
    /\ calc.image = << 1200, 900 >>
    /\ calc.rows = GridRows
    /\ calc.cols = GridCols

\* Every cell is width x height pixels, and cells 5 and 6 give the bbox.
C14_Example(width, height, bbox) ==
    /\ Cardinality(DOMAIN calc.cell_mapping) = 12
    /\ \A id \in DOMAIN calc.cell_mapping :
           C13_Width(id) = width /\ C13_Height(id) = height
    /\ (calc.step = "selected" /\ calc.cells = << 5, 6 >>) => calc.bbox = bbox

\* C14 as stated: on a 1200x900 image detect's grid (rows=4, cols=3) has 12
\* cells of 300x300, and selecting cells 5 and 6 gives the local bbox
\* (300,300,900,600).
C14_Cells300x300AsClaimed ==
    C14_DetectGrid => C14_Example(300, 300, << 300, 300, 900, 600 >>)

\* C14, amended: on a 1200x900 image detect's grid (rows=4, cols=3) has 12
\* cells of 400x225, and selecting cells 5 and 6 (the last cell of the
\* second row and the first of the third) gives the local bbox
\* (0,225,1200,675).
C14_Cells400x225 ==
    C14_DetectGrid => C14_Example(400, 225, << 0, 225, 1200, 675 >>)

\* Cells 5 and 6 selected on detect's grid over the 1200x900 image.
C14_Witness ==
    /\ C14_DetectGrid
    /\ calc.step = "selected"
    /\ calc.cells = << 5, 6 >>
    /\ calc.cell_mapping[5] = << 800, 225, 1200, 450 >>
    /\ calc.cell_mapping[6] = << 0, 450, 400, 675 >>

\* ---- detect_multiple's combined visualization ---------------------------

\* The results of the batch that pass the confidence filter.
C15_Survivors ==
    { k \in 1..Len(returned) : returned[k].confidence \in { "certain", "high", "medium" } }

\* C15: detect_multiple produces the combined visualization if and only if
\* at least one result survives the confidence filter; when none survives,
\* the batch is empty and there is no visualization.
C15_VisualizationIffSurvivor ==
    /\ mpc = "returned" =>
           /\ combined_result_image <=> C15_Survivors # {}
           /\ C15_Survivors = {} => detections = << >>
    /\ mpc # "returned" => ~combined_result_image

\* Two results, both filtered out: an empty batch and no visualization.
C15_Witness ==
    /\ mpc = "returned"
    /\ Len(returned) = 2
    /\ C15_Survivors = {}
    /\ detections = << >>
    /\ ~combined_result_image

\* ------------------------------------------------------------------------
\* The web page (Home), its ImageUpload component and the /api/detect
\* proxy in front of the FastAPI backend.
\* ------------------------------------------------------------------------

\* A MIME type is the sequence of its parts: "image/png" is <<"image","png">>
\* and the empty type of an unrecognised file is << >>.
PngFile == [ name |-> "photo.png", type |-> << "image", "png" >> ]

GifFile == [ name |-> "anim.gif", type |-> << "image", "gif" >> ]

PdfFile == [ name |-> "report.pdf", type |-> << "application", "pdf" >> ]

UntypedFile == [ name |-> "notes", type |-> << >> ]

Files == { PngFile, GifFile, PdfFile, UntypedFile }

\* The FileList of a picker change or a drop: none, one or two files.
FileLists ==
    { << >> } \cup { << f >> : f \in Files } \cup { << PdfFile, PngFile >> }

TargetTexts == { "", "red car, person" }

\* Every type passes the check.
StartsWithImageOrNot(type) == TRUE

\* file.type.startsWith("image/")
StartsWithImage(type) == Len(type) > 0 /\ type[1] = "image"

\* URL.createObjectURL(file)
createObjectURL(f) == [ blob |-> f.name ]

\* A message is the sequence of its words; message.includes(word).
Includes(message, word) == \E k \in 1..Len(message) : message[k] = word

\* No thrown error is taken for a connection error.
IsConnectionErrorNever(err) == FALSE

\* err instanceof TypeError && err.message.includes("fetch")
IsConnectionError(err) ==
    err.type = "TypeError" /\ Includes(err.message, "fetch")

\* What the backend does with the forwarded request: the connection fails
\* (fetch rejects with TypeError "fetch failed"), it answers with an error
\* status, it answers 200 with a body that is not JSON, or it answers 200
\* with a detection result, with or without results.
BackendOutcomes ==
    { [ kind |-> "unreachable",
        err |-> [ type |-> "TypeError", message |-> << "fetch", "failed" >> ] ],
      [ kind |-> "status", status |-> 500,
        body |-> [ detail |-> "Detection failed" ] ],
      [ kind |-> "status", status |-> 400, body |-> [ error |-> "" ] ],
      [ kind |-> "garbled",
        err |-> [ type |-> "SyntaxError",
                  message |-> << "Unexpected", "token" >> ] ],
      [ kind |-> "ok",
        body |-> [ ok |-> TRUE, imageUrl |-> "/results/out.jpg",
                   results |-> << [ object |-> "red car",
                                    confidence |-> "high" ] >> ] ],
      [ kind |-> "ok",
        body |-> [ ok |-> TRUE, imageUrl |-> "/results/out.jpg",
                   results |-> << >> ] ] }

\* a || b on strings, a missing field read as undefined
OrElse(record, field, fallback) ==
    IF field \in DOMAIN record /\ record[field] # ""
    THEN record[field]
    ELSE fallback

\* POST's catch block
Caught(err) ==
    IF IsConnectionError(err)
    THEN [ status |-> 503,
           body |-> [ error |-> "FastAPI backend is not running" ] ]
    ELSE [ status |-> 500, body |-> [ error |-> "Server error" ] ]

\* POST of /api/detect: the response of the proxy to the page.
POST(outcome) ==
    CASE outcome.kind \in { "unreachable", "garbled" } -> Caught(outcome.err)
      [] outcome.kind = "status" ->
             [ status |-> outcome.status,
               body |-> [ error |->
                   OrElse(outcome.body, "detail",
                          OrElse(outcome.body, "error", "Backend error")) ] ]
      [] outcome.kind = "ok" ->
             [ status |-> 200,
               body |-> [ ok |-> outcome.body.ok,
                          imageUrl |-> outcome.body.imageUrl,
                          results |-> outcome.body.results ] ]

\* res.ok
ResOk(res) == res.status >= 200 /\ res.status <= 299

InitPage ==
    /\ DetectorOff
    /\ calc = NoCalc
    /\ PageInit

\* ImageUpload.handleFiles, with Home's onFileSelected
\* (f) => { setFile(f); setData(null); setError(null) }
handleFiles(files) ==
    IF files = << >> \/ ~StartsWithImage(files[1].type)
    THEN UNCHANGED << file, previewUrl, data, error >>
    ELSE /\ file' = files[1]
         /\ data' = Null
         /\ error' = Null
         /\ previewUrl' = createObjectURL(files[1])

\* ImageUpload.onChange: the file picker closes with a FileList.  The two
\* buttons that open the picker ("browse files", "Change image") are
\* rendered only when !isLoading.
onChange(files) ==
    /\ ~isLoading
    /\ handleFiles(files)
    /\ event' = [ handler |-> "onChange", files |-> files ]
    /\ UNCHANGED << detector, calc, targets, isLoading, isDragging, inflight >>

\* ImageUpload.onDrop: files are dropped on the card.
onDrop(files) ==
    /\ isDragging' = FALSE
    /\ handleFiles(files)
    /\ event' = [ handler |-> "onDrop", files |-> files ]
    /\ UNCHANGED << detector, calc, targets, isLoading, inflight >>

\* ImageUpload's onDragOver and onDragLeave
onDrag(over) ==
    /\ isDragging' = over
    /\ event' = [ handler |-> "onDrag", over |-> over ]
    /\ UNCHANGED << detector, calc, file, previewUrl, targets, isLoading,
                    error, data, inflight >>

\* The textarea's onChange: setTargets(e.target.value)
setTargets(text) ==
    /\ targets' = text
    /\ event' = [ handler |-> "setTargets", text |-> text ]
    /\ UNCHANGED << detector, calc, file, previewUrl, isLoading, error, data,
                    isDragging, inflight >>

\* The submission that leaves the result of the request before on display.
onSubmitKeepingData ==
    /\ ~isLoading
    /\ IF file = Null
       THEN /\ error' = [ message |-> "Please select an image file." ]
            /\ UNCHANGED << isLoading, inflight >>
       ELSE /\ error' = Null
            /\ isLoading' = TRUE
            /\ inflight' = [ stage |-> "sent", file |-> file,
                             targets |-> targets ]
    /\ event' = [ handler |-> "onSubmit", file |-> file, targets |-> targets ]
    /\ UNCHANGED << detector, calc, file, previewUrl, targets, data,
                    isDragging >>

\* Home.onSubmit up to its await: the submit button is disabled while
\* isLoading.
onSubmit ==
    /\ ~isLoading
    /\ data' = Null
    /\ IF file = Null
       THEN /\ error' = [ message |-> "Please select an image file." ]
            /\ UNCHANGED << isLoading, inflight >>
       ELSE /\ error' = Null
            /\ isLoading' = TRUE
            /\ inflight' = [ stage |-> "sent", file |-> file,
                             targets |-> targets ]
    /\ event' = [ handler |-> "onSubmit", file |-> file, targets |-> targets ]
    /\ UNCHANGED << detector, calc, file, previewUrl, targets, isDragging >>

\* The proxy handles the request and answers the page.
Proxy(outcome) ==
    /\ inflight.stage = "sent"
    /\ inflight' = [ stage |-> "answered", file |-> inflight.file,
                     targets |-> inflight.targets, outcome |-> outcome,
                     res |-> POST(outcome) ]
    /\ UNCHANGED << detector, calc, file, previewUrl, targets, isLoading,
                    error, data, isDragging, event >>

\* Home.onSubmit after its await: the response is read, then finally.
onResponse ==
    /\ inflight.stage = "answered"
    /\ IF ~ResOk(inflight.res)
       THEN /\ error' = [ message |->
                            OrElse(inflight.res.body, "error", "Request failed") ]
            /\ UNCHANGED data
       ELSE /\ data' = inflight.res.body
            /\ UNCHANGED error
    /\ isLoading' = FALSE
    /\ inflight' = [ stage |-> "none" ]
    /\ event' = [ handler |-> "onResponse", res |-> inflight.res,
                  outcome |-> inflight.outcome ]
    /\ UNCHANGED << detector, calc, file, previewUrl, targets, isDragging >>

\* setIsLoading(false) at the end of the try block and not in finally: a
\* rejected fetch leaves the page loading.
onFetchRejectedStillLoading ==
    /\ inflight.stage = "sent"
    /\ error' = [ message |-> "Failed to fetch" ]
    /\ inflight' = [ stage |-> "none" ]
    /\ event' = [ handler |-> "onFetchRejected" ]
    /\ UNCHANGED << detector, calc, file, previewUrl, targets, isLoading, data,
                    isDragging >>

\* Home.onSubmit after its await: the page's own fetch rejects.
onFetchRejected ==
    /\ inflight.stage = "sent"
    /\ error' = [ message |-> "Failed to fetch" ]
    /\ isLoading' = FALSE
    /\ inflight' = [ stage |-> "none" ]
    /\ event' = [ handler |-> "onFetchRejected" ]
    /\ UNCHANGED << detector, calc, file, previewUrl, targets, data,
                    isDragging >>

NextPage ==
    \/ \E files \in FileLists : onChange(files)
    \/ \E files \in FileLists : onDrop(files)
    \/ \E over \in BOOLEAN : onDrag(over)
    \/ \E text \in TargetTexts : setTargets(text)
    \/ onSubmit
    \/ \E outcome \in BackendOutcomes : Proxy(outcome)
    \/ onResponse
    \/ onFetchRejected

SpecPage == InitPage /\ [][NextPage]_vars

\* The page with a request that settles: the fetch of a sent request is
\* answered or rejected, and the event loop runs the continuation of
\* onSubmit once its awaited promise has settled.
SpecPageFair ==
    /\ SpecPage
    /\ WF_vars(\E outcome \in BackendOutcomes : Proxy(outcome))
    /\ WF_vars(onResponse)

\* The page has shown the proxy's answer to an unreachable backend.
C16_Unreachable(ev) ==
    ev.handler = "onResponse" /\ ev.outcome.kind = "unreachable"

\* C16: when the backend cannot be reached, the proxy answers 503 with an
\* error field, and the page shows that error and no result: the outcome is
\* never a successful response with an empty results list.
C16_UnreachableBackendShownAsError ==
    [][ /\ (inflight'.stage = "answered"
                /\ inflight'.outcome.kind = "unreachable")
            => /\ inflight'.res.status = 503
               /\ OrElse(inflight'.res.body, "error", "") # ""
               /\ "results" \notin DOMAIN inflight'.res.body
        /\ (event' # event /\ C16_Unreachable(event'))
            => /\ error' = [ message |-> event'.res.body.error ]
               /\ data' = Null
               /\ ~isLoading' ]_vars

\* The page after the answer to an unreachable backend: the error is
\* shown, no result, and the request is over.
C16_Witness ==
    /\ C16_Unreachable(event)
    /\ event.res.status = 503
    /\ error # Null
    /\ data = Null
    /\ ~isLoading

\* C17 as stated: a submission with no file selected or with no target
\* description surfaces an error at once, sends no request and leaves
\* isLoading false.
C17_NoRequestWithoutInputsAsClaimed ==
    [][ (onSubmit /\ (file = Null \/ targets = ""))
            => /\ error' # Null
               /\ inflight' = inflight
               /\ ~isLoading' ]_vars

\* The first file of the list is not of an image type.
C18_NotAnImage(files) ==
    files # << >> /\ (files[1].type = << >> \/ files[1].type[1] # "image")

\* C18: offering ImageUpload a file whose type is not an image, by the file
\* picker or by drag-and-drop, changes neither the selected file, nor the
\* preview URL, nor the result data, nor the error.
C18_NonImageOfferChangesNothing ==
    [][ \A files \in FileLists :
            (C18_NotAnImage(files) /\ (onChange(files) \/ onDrop(files)))
                => UNCHANGED << file, previewUrl, data, error >> ]_vars

\* A PDF dropped while the result of a PNG is on display: the PNG, its
\* preview and its result are still there.
C18_Witness ==
    /\ event.handler = "onDrop"
    /\ event.files = << PdfFile >>
    /\ file = PngFile
    /\ previewUrl = createObjectURL(PngFile)
    /\ data # Null
    /\ error = Null

\* ---- Determinism of detect ----------------------------------------------

\* The runs of detect on the image so far: the returned calls, and the
\* current call once it has returned or raised.
C19_Runs ==
    IF pc \in { "done", "raised" }
    THEN Append(calls, [ log |-> log, result |-> result ])
    ELSE calls

\* Two queries show the oracle the same picture: the same region of the
\* original image.
C19_SameQuery(a, b) == a.crop = b.crop /\ a.at = b.at

\* The answers of two runs are those of one oracle function: wherever the
\* same picture was asked about, in either run, the answer was the same.
C19_OneOracle(first, second) ==
    LET asked == Range(first.log) \cup Range(second.log)
    IN  \A a, b \in asked :
            C19_SameQuery(a, b) => a.resp = b.resp /\ a.failed = b.failed

\* C19: two runs of detect on the same image whose answers come from the
\* same oracle function issue the same sequence of queries and end alike,
\* with the same bbox, raw confidence, category and iteration count.  (The
\* runs of one batch differ in their description only, which detect hands
\* to the oracle and uses for nothing else.)
C19_DeterministicGivenOracle ==
    \A i, j \in 1..Len(C19_Runs) :
        (i < j /\ C19_OneOracle(C19_Runs[i], C19_Runs[j]))
            => /\ C19_Runs[i].log = C19_Runs[j].log
               /\ C19_Runs[i].result = C19_Runs[j].result

\* Two returned runs under one oracle function, each with a loop query, a
\* crop away from the origin and a final query, and the same result.
C19_Witness ==
    /\ Len(calls) = 2
    /\ C19_OneOracle(calls[1], calls[2])
    /\ Len(calls[2].log) = 2
    /\ calls[2].log[2].at # << 0, 0 >>
    /\ calls[2].result = calls[1].result
    /\ calls[2].result.iterations = 1

\* ---- The states of a detect run -----------------------------------------

\* Where the run of the only description stands: 0 INIT, 1 ITERATING,
\* 2 TERMINATED, 3 FINALIZED, and 4 for a run ended by an exception.
C20_Stage ==
    CASE pc = "idle" -> IF returned = << >> THEN 0 ELSE 3
      [] pc \in { "test", "query" } -> 1
      [] pc = "final" -> 2
      [] pc = "done" -> 3
      [] pc = "raised" -> 4

\* Every oracle query of the run so far has returned.
C20_AllReturned == \A k \in 1..Len(log) : ~log[k].failed

\* C20 as stated, in the form a finite run refutes: a run whose oracle
\* queries all return is always in INIT, ITERATING, TERMINATED or FINALIZED,
\* never steps back to an earlier one, holds exactly one terminal reason
\* (converged, max-iterations, shrink-limit or no-confident-cells) from
\* TERMINATED on and none before, and does not end anywhere but in
\* FINALIZED.
C20_InitIteratingTerminatedFinalizedAsClaimed ==
    [][ C20_AllReturned'
            => /\ C20_Stage' \in 0..3
               /\ C20_Stage' >= C20_Stage
               /\ pc' \in { "final", "done" }
                      => exit_reason' \in { "converged", "max-iterations",
                                            "shrink-limit", "no-confident-cells" }
               /\ pc' \in { "test", "query" } => exit_reason' = "none" ]_vars

\* ---- Which selections a bbox and an average are built from --------------

\* The k-th selections of an answer, for the k of `keep` in ascending order.
RECURSIVE C21_Pick(_, _, _)
C21_Pick(list, keep, k) ==
    IF k > Len(list)
    THEN << >>
    ELSE IF k \in keep
         THEN << list[k] >> \o C21_Pick(list, keep, k + 1)
         ELSE C21_Pick(list, keep, k + 1)

\* An answer without its selections of confidence below 60 or above 100 and
\* without those whose cell id is outside the grid.
C21_Kept(resp) ==
    Resp(C21_Pick(resp.cells, Surviving(resp), 1),
         C21_Pick(resp.confidence_scores, Surviving(resp), 1))

\* The local bbox of an answer's surviving selections on a crop.
C21_KeptBox(img, resp) ==
    _cells_to_bbox(C21_Kept(resp).cells,
                   overlay_grid_on_image(img, GridRows, GridCols))

\* C21 as stated: every crop and the final bbox are those of the surviving
\* selections alone (cell id inside the grid, confidence within 60..100),
\* and the averaged confidence is the average of the surviving scores: a
\* selection that does not survive changes neither.
C21_OnlySurvivorsCountAsClaimed ==
    /\ \A k \in 1..(Len(log) - 1) :
           (log[k].phase = "loop" /\ Surviving(log[k].resp) # {})
               => log[k + 1].crop =
                      Crop(log[k].crop, C21_KeptBox(log[k].crop, log[k].resp))
    /\ pc = "done" =>
           LET last == log[Len(log)]
           IN  /\ Surviving(last.resp) # {}
                      => result.bbox =
                             ToOriginal(C21_KeptBox(last.crop, last.resp), last.at)
               /\ IF Surviving(last.resp) = {}
                  THEN result.confidence_score.num = 0
                  ELSE result.confidence_score.num
                           * Len(C21_Kept(last.resp).cells)
                       = SumSeq(C21_Kept(last.resp).confidence_scores)
                           * result.confidence_score.den

\* An answer with selections, every one of them malformed: a cell id
\* outside the grid, or a confidence outside 0..100.
C22_OnlyMalformed(resp) ==
    /\ resp.cells # << >>
    /\ \A k \in 1..Len(resp.cells) :
           \/ resp.cells[k] \notin CellIds(GridRows, GridCols)
           \/ resp.confidence_scores[k] < 0
           \/ resp.confidence_scores[k] > 100

\* C22 as stated: a final answer made of malformed selections only is not
\* fatal and is treated as an answer without selections, on the
\* no-confident-cells path: detect returns, with confidence 0 and category
\* "uncertain".
C22_MalformedOnlyAsClaimed ==
    (Ended /\ log # << >> /\ ~log[Len(log)].failed
       /\ C22_OnlyMalformed(log[Len(log)].resp))
        => /\ pc = "done"
           /\ result.confidence_score.num = 0
           /\ result.confidence = "uncertain"

\* ---- The bbox of the selected cells --------------------------------------

\* The selected cells that are cells of the grid.
C23_Cells == { id \in Range(calc.cells) : id \in DOMAIN calc.cell_mapping }

\* C23: for every non-empty set of surviving cells the local bbox contains
\* every cell's rectangle, has right >= left and bottom >= top, and is the
\* smallest such rectangle (each of its sides is the side of some cell),
\* adjacent cells or not.
C23_BboxIsUnionOfCells ==
    (calc.op = "grid" /\ calc.step = "selected" /\ C23_Cells # {})
        => /\ calc.bbox[1] <= calc.bbox[3]
           /\ calc.bbox[2] <= calc.bbox[4]
           /\ \A id \in C23_Cells :
                  /\ calc.bbox[1] <= calc.cell_mapping[id][1]
                  /\ calc.bbox[2] <= calc.cell_mapping[id][2]
                  /\ calc.cell_mapping[id][3] <= calc.bbox[3]
                  /\ calc.cell_mapping[id][4] <= calc.bbox[4]
           /\ \E id \in C23_Cells : calc.cell_mapping[id][1] = calc.bbox[1]
           /\ \E id \in C23_Cells : calc.cell_mapping[id][2] = calc.bbox[2]
           /\ \E id \in C23_Cells : calc.cell_mapping[id][3] = calc.bbox[3]
           /\ \E id \in C23_Cells : calc.cell_mapping[id][4] = calc.bbox[4]

\* Opposite corners of detect's grid over the 1000x700 image: the bbox is
\* the whole image.
C23_Witness ==
    /\ calc.op = "grid"
    /\ calc.step = "selected"
    /\ calc.image = << 1000, 700 >>
    /\ calc.rows = GridRows /\ calc.cols = GridCols
    /\ calc.cells = << 0, 11 >>
    /\ calc.bbox = << 0, 0, 1000, 700 >>

\* ---- The cumulative offset ----------------------------------------------

\* The loop queries of a log that were answered: each one took a crop.
C24_Crops(entries) ==
    SelectSeq(entries, LAMBDA q : q.phase = "loop" /\ ~q.failed)

\* The top-left corner of the local crop bbox taken after a loop query.
C24_Corner(q) ==
    LET bbox == _cells_to_bbox(q.resp.cells,
                    overlay_grid_on_image(q.crop, GridRows, GridCols))
    IN  << bbox[1], bbox[2] >>

\* The component-wise sum of the corners of the crops of a log.
RECURSIVE C24_SumOfCorners(_)
C24_SumOfCorners(crops) ==
    IF crops = << >>
    THEN << 0, 0 >>
    ELSE LET rest == C24_SumOfCorners(Tail(crops))
             corner == C24_Corner(Head(crops))
         IN  << corner[1] + rest[1], corner[2] + rest[2] >>

\* C24: throughout a detect run the cumulative offset is (0,0) at the
\* start, changes only in the step that takes a crop, is after k crops the
\* sum of the top-left corners of the k local crop bboxes, and never
\* decreases in either component.
C24_OffsetIsSumOfCropCorners ==
    [][ pc' \in { "test", "query", "final", "done", "raised" }
            => /\ origin_coordinates' = C24_SumOfCorners(C24_Crops(log'))
               /\ iterations' = Len(C24_Crops(log'))
               /\ Len(C24_Crops(log')) = 0 => origin_coordinates' = << 0, 0 >>
               /\ pc # "idle"
                      => /\ origin_coordinates'[1] >= origin_coordinates[1]
                         /\ origin_coordinates'[2] >= origin_coordinates[2]
                         /\ origin_coordinates' # origin_coordinates
                                => /\ pc = "query"
                                   /\ Len(C24_Crops(log'))
                                          = Len(C24_Crops(log)) + 1 ]_vars

\* Two crops taken, both away from the left and top edges in sum.
C24_Witness ==
    /\ pc = "test"
    /\ iterations = 2
    /\ Len(log) = 2
    /\ log[2].at[2] > 0
    /\ origin_coordinates[1] > 0
    /\ origin_coordinates[2] > log[2].at[2]

\* ---- An oracle failure ---------------------------------------------------

C26_SelectedFileIsPngJpegWebpAsClaimed ==
    file # Null
        => file.type \in { << "image", "png" >>, << "image", "jpeg" >>,
                           << "image", "webp" >> }

\* ---- Crops too small to label --------------------------------------------

\* A crop whose grid cells have no pixel in one direction: no label of any
\* size fits in them, whatever the minimum legible size is taken to be.
C27_TooSmallToLabel(img) == img[1] \div GridCols < 1 \/ img[2] \div GridRows < 1

\* C27 as stated: no oracle query, the final one included, is issued on a
\* crop that is too small for its grid labels.
C27_NoQueryOnUnlabelableCropAsClaimed ==
    \A k \in 1..Len(log) : ~C27_TooSmallToLabel(log[k].crop)

\* ---- Degenerate bboxes ----------------------------------------------------

\* A bbox of zero area: right = left or bottom = top.
C28_ZeroArea(bbox) == bbox[3] = bbox[1] \/ bbox[4] = bbox[2]

\* The answered queries whose surviving cells give a bbox of zero area.
C28_Degenerate ==
    { k \in 1..Len(log) :
        /\ ~log[k].failed
        /\ C28_ZeroArea(C21_KeptBox(log[k].crop, log[k].resp)) }

\* C28 as stated: an answer whose bbox has zero area raises nothing and is
\* not cropped to; it ends the search, and the call returns the crop the
\* question was asked about, with confidence 0.
C28_ZeroAreaBboxEndsSearchAsClaimed ==
    \A k \in C28_Degenerate :
        /\ k = Len(log)
        /\ image = log[k].crop
        /\ origin_coordinates = log[k].at
        /\ exception = "none"
        /\ pc = "done" =>
               /\ result.bbox = << log[k].at[1], log[k].at[2],
                                   log[k].at[1] + log[k].crop[1],
                                   log[k].at[2] + log[k].crop[2] >>
               /\ result.confidence_score.num = 0

\* ---- The loop under the default threshold --------------------------------

C30_RawConfidenceZeroOrAtLeast60AsClaimed ==
    pc = "done" =>
        LET raw == result.confidence_score
        IN  /\ \/ raw.num = 0
               \/ /\ raw.num >= 60 * raw.den
                  /\ raw.num <= 100 * raw.den
            /\ result.confidence # "low"
            /\ result.confidence = "uncertain" => raw.num = 0

\* ---- Containment of crops and of the returned bbox ------------------------

\* The rectangle a crop of size `img` occupies in the original image when
\* its corner is at `at`.
C31_Placed(img, at) == << at[1], at[2], at[1] + img[1], at[2] + img[2] >>

\* Rectangle `inner` lies inside rectangle `outer`, and is well formed.
C31_Inside(inner, outer) ==
    /\ outer[1] <= inner[1]
    /\ inner[1] <= inner[3]
    /\ inner[3] <= outer[3]
    /\ outer[2] <= inner[2]
    /\ inner[2] <= inner[4]
    /\ inner[4] <= outer[4]

C31_Original == << 0, 0, original_image[1], original_image[2] >>

\* C31: the current crop at the cumulative offset lies inside the original
\* image, every crop that was queried lies inside the crop queried before
\* it, and the returned bbox lies inside the original image with
\* left <= right and top <= bottom.
C31_CropsNestedAndBboxInsideOriginal ==
    /\ C31_Inside(C31_Placed(image, origin_coordinates), C31_Original)
    /\ \A k \in 1..Len(log) :
           C31_Inside(C31_Placed(log[k].crop, log[k].at), C31_Original)
    /\ \A k \in 2..Len(log) :
           C31_Inside(C31_Placed(log[k].crop, log[k].at),
                      C31_Placed(log[k - 1].crop, log[k - 1].at))
    /\ Len(log) > 0 =>
           C31_Inside(C31_Placed(image, origin_coordinates),
                      C31_Placed(log[Len(log)].crop, log[Len(log)].at))
    /\ pc = "done" => C31_Inside(result.bbox, C31_Original)

\* A call that cropped twice, away from the corner, and returned a bbox of
\* positive area.
C31_Witness ==
    /\ pc = "done"
    /\ Len(log) = 3
    /\ log[2].at # << 0, 0 >>
    /\ log[3].at # log[2].at
    /\ result.bbox[1] < result.bbox[3]
    /\ result.bbox[2] < result.bbox[4]

\* ---- Responses and the selected file --------------------------------------

\* C32 as stated: when a response puts result data on display, the request
\* it answers was made with the file that is selected now: the answer to a
\* request for a file replaced since is not shown for the new file.
C32_ShownResultIsOfSelectedFileAsClaimed ==
    [][ (inflight.stage = "answered" /\ inflight'.stage = "none"
             /\ data' # Null)
            => inflight.file = file' ]_vars

\* ---- Error and result on the page ----------------------------------------

\* The handler that has just run, when a step runs one.
C33_Ran(handler) == event' # event /\ event'.handler = handler

\* What each handler does to error and data.
C33_Steps ==
    /\ (C33_Ran("onSubmit") /\ file # Null) => (error' = Null /\ data' = Null)
    /\ (inflight.stage = "answered" /\ inflight'.stage = "none")
           => IF ResOk(inflight.res)
              THEN data' # Null /\ error' = error
              ELSE error' # Null /\ data' = data
    /\ C33_Ran("onFetchRejected") => (error' # Null /\ data' = data)
    /\ \A files \in FileLists :
           ((C33_Ran("onChange") \/ C33_Ran("onDrop"))
                /\ event'.files = files /\ ~C18_NotAnImage(files)
                /\ files # << >>)
               => (error' = Null /\ data' = Null)

\* C33: error and result data are never both set; a submission that sends
\* a request clears both, a successful response sets only data, a failed
\* response or a rejected fetch sets only error, and selecting a new file
\* clears both.
C33_ErrorAndDataExclusive ==
    /\ [](~(error # Null /\ data # Null))
    /\ [][C33_Steps]_vars

\* A successful response has put its result on display, and no error with it.
C33_Witness ==
    /\ event.handler = "onResponse"
    /\ event.res.status = 200
    /\ data # Null
    /\ error = Null

\* ---- isLoading and the request in flight ---------------------------------

\* A request of the page is in flight: sent, and its response not yet read.
C34_InFlight == inflight.stage \in { "sent", "answered" }

\* C34: isLoading is true exactly while a request is in flight; a request
\* is sent only when none is in flight (the submit button is disabled while
\* isLoading), so there is at most one; and a page that is loading stops
\* loading, whether the response is OK, not OK, or the fetch throws.
C34_LoadingExactlyWhileInFlight ==
    /\ [](isLoading <=> C34_InFlight)
    /\ [][ /\ (inflight'.stage = "sent" /\ inflight' # inflight)
                  => (~isLoading /\ ~C34_InFlight)
           /\ (C34_InFlight /\ ~C34_InFlight') => ~isLoading' ]_vars
    /\ (isLoading ~> ~isLoading)

\* The page has stopped loading after a fetch that threw.
C34_Witness ==
    /\ event.handler = "onFetchRejected"
    /\ ~isLoading
    /\ ~C34_InFlight
    /\ error # Null


====
